---- MODULE Spec2Model ----
(***************************************************************************)
(* A model of the python-cheatsheet course scripts:                        *)
(*   - the data_processing_project pipeline (clean_data, process_data),    *)
(*   - the Employee1..Employee4 validation classes of create_property.py,  *)
(*   - the three exception_handling_demo scripts,                          *)
(*   - the file-handling scripts of Section_12_files,                      *)
(*   - rename_dir.py of Section_13_Directory,                              *)
(*   - the garbage-collection demo of Section_17_Special_methods,          *)
(*   - the instance counters of Section_16_Classes_Objects.                *)
(* Each group of scripts has its own specification over its own variables; *)
(* the variables of the other groups stay at their idle values.            *)
(***************************************************************************)
EXTENDS Integers, Sequences, FiniteSets, TLC

(* ---------------- bounds of the model ---------------- *)

\* longest list handed to the pipeline
MaxLen == 3
\* list elements range over -MaxVal..MaxVal
MaxVal == 2
\* longest string handed to a validator or typed at the prompt
MaxStrLen == 3
\* int inputs range over -MaxNum..MaxNum, float inputs over the halves between
MaxNum == 3
\* most entries a directory holds when rename_dir.py starts
MaxEntries == 3
\* most ParentObject/ChildObject pairs the heap has room for
MaxPairs == 2
\* most instances constructed of one class
MaxInstances == 3

(* ---------------- Python values ---------------- *)

\* Every value is a record of one shape: t is the Python type, n the number
\* (an int's value, a bool's 0/1, a float's value counted in halves), s the
\* characters of a str.  t = "nan" is the float NaN.
IntV(i) == [t |-> "int", n |-> i, s |-> <<>>]
BoolV(b) == [t |-> "bool", n |-> b, s |-> <<>>]
FloatV(h) == [t |-> "float", n |-> h, s |-> <<>>]
NaN == [t |-> "nan", n |-> 0, s |-> <<>>]
StrV(chars) == [t |-> "str", n |-> 0, s |-> chars]
NoneV == [t |-> "none", n |-> 0, s |-> <<>>]
\* an attribute that was never assigned
Unset == [t |-> "unset", n |-> 0, s |-> <<>>]

Alphabet == {"-", "0", "3", "5", ".", "a", " "}
Digits == {"0", "1", "2", "3", "4", "5", "6", "7", "8", "9"}
Whitespace == {" "}

RECURSIVE StringsOfLen(_)
StringsOfLen(k) ==
  IF k = 0 THEN {<<>>}
  ELSE {Append(p, c) : p \in StringsOfLen(k - 1), c \in Alphabet}

RECURSIVE StringsUpTo(_)
StringsUpTo(k) ==
  IF k = 0 THEN StringsOfLen(0)
  ELSE StringsUpTo(k - 1) \cup StringsOfLen(k)

Strings == StringsUpTo(MaxStrLen)

Numbers ==
  {IntV(i) : i \in -MaxNum..MaxNum}
    \cup {FloatV(h) : h \in (-2 * MaxNum - 1)..(2 * MaxNum + 1)}
    \cup {BoolV(0), BoolV(1), NaN}

Inputs == {StrV(c) : c \in Strings} \cup Numbers \cup {NoneV}

(* ---------------- the builtins the scripts call ---------------- *)

\* outcome of a call: exc = "none" and the value, or the exception raised
Ok(v) == [exc |-> "none", msg |-> "", val |-> v]
Raise(e, m) == [exc |-> e, msg |-> m, val |-> Unset]

DigitVal(c) ==
  CASE c = "0" -> 0 [] c = "1" -> 1 [] c = "2" -> 2 [] c = "3" -> 3
    [] c = "4" -> 4 [] c = "5" -> 5 [] c = "6" -> 6 [] c = "7" -> 7
    [] c = "8" -> 8 [] c = "9" -> 9

RECURSIVE LStrip(_)
LStrip(chars) ==
  IF chars # <<>> /\ Head(chars) \in Whitespace THEN LStrip(Tail(chars))
  ELSE chars

RECURSIVE RStrip(_)
RStrip(chars) ==
  IF chars # <<>> /\ chars[Len(chars)] \in Whitespace
  THEN RStrip(SubSeq(chars, 1, Len(chars) - 1))
  ELSE chars

RECURSIVE DigitsValue(_)
DigitsValue(chars) ==
  IF chars = <<>> THEN 0
  ELSE 10 * DigitsValue(SubSeq(chars, 1, Len(chars) - 1))
         + DigitVal(chars[Len(chars)])

\* int(str): surrounding whitespace is stripped, then an optional sign and a
\* non-empty run of decimal digits; anything else is a ValueError.
ParseInt(chars) ==
  LET stripped == RStrip(LStrip(chars))
      signed == stripped # <<>> /\ Head(stripped) \in {"-", "+"}
      body == IF signed THEN Tail(stripped) ELSE stripped
      magnitude == DigitsValue(body)
  IN IF body = <<>> \/ \E i \in 1..Len(body) : body[i] \notin Digits
     THEN Raise("ValueError", "invalid literal for int()")
     ELSE IF signed /\ Head(stripped) = "-" THEN Ok(IntV(-magnitude))
     ELSE Ok(IntV(magnitude))

\* float -> int truncates towards zero
Trunc(h) == IF h >= 0 THEN h \div 2 ELSE -((-h) \div 2)

\* int(value)
PyInt(value) ==
  CASE value.t = "int" -> Ok(IntV(value.n))
    [] value.t = "bool" -> Ok(IntV(value.n))
    [] value.t = "float" -> Ok(IntV(Trunc(value.n)))
    [] value.t = "nan" -> Raise("ValueError", "cannot convert float NaN to integer")
    [] value.t = "str" -> ParseInt(value.s)
    [] OTHER -> Raise("TypeError", "int() argument must be a string or a number")

\* isinstance(value, (int, float)); bool is a subclass of int
IsIntOrFloat(value) == value.t \in {"int", "bool", "float", "nan"}

\* isinstance(value, str)
IsStr(value) == value.t = "str"

\* value < 0 on a number; every comparison with NaN is False
LessThanZero(value) == value.t # "nan" /\ value.n < 0

(* ---------------- state ---------------- *)

VARIABLES
  \* main.py: the pipeline's list and the results of its calls
  raw_data, cleaned, processed, stage,
  \* create_property.py: the instance (bound: the name emp refers to one),
  \* the last call made on it and how it ended
  bound, _name, _age, op, arg, arg_name, exc, msg, ret,
  \* the instance as it was before the last call
  pre_bound, pre_name, pre_age,
  \* Section_8: which script runs, what the user typed, where the function is
  script, age, pc, console, returned, pending, finally_runs,
  \* Section_12: which script runs, its next statement, the open handles,
  \* the files that exist, the exception that left the script
  fscript, fpc, handles, fs, uncaught,
  \* rename_dir.py: what the two paths are, the next statement, the
  \* exception that left the script, and what the paths were at the start
  Section_dir, Section_new_dir, dir_pc, dir_exc, start_dir, start_new_dir,
  \* garbage_collection.py: the heap, the name parent_instance, the saved
  \* addresses, the last statement that changed the heap, what the checks
  \* made since then printed, whether reference counting alone ever freed
  \* an object
  heap, parent_instance, parent_id, child_id, gc_op, seen_exists, seen_refs,
  collected, freed_by_refcount,
  \* attribute.py and class_method.py: the class attributes, the instances,
  \* the last statement, what it printed, the counters before it
  Counter, phones, total_students, students, cls_op, printed,
  pre_Counter, pre_total_students

pipeVars == <<raw_data, cleaned, processed, stage>>
empVars == <<bound, _name, _age, op, arg, arg_name, exc, msg, ret,
             pre_bound, pre_name, pre_age>>
excVars == <<script, age, pc, console, returned, pending, finally_runs>>
fileVars == <<fscript, fpc, handles, fs, uncaught>>
dirVars == <<Section_dir, Section_new_dir, dir_pc, dir_exc, start_dir, start_new_dir>>
gcVars == <<heap, parent_instance, parent_id, child_id, gc_op, seen_exists,
            seen_refs, collected, freed_by_refcount>>
clsVars == <<Counter, phones, total_students, students, cls_op, printed,
             pre_Counter, pre_total_students>>
vars == <<pipeVars, empVars, excVars, fileVars, dirVars, gcVars, clsVars>>

\* the values a group of variables has while another group's script runs
IdlePipe == raw_data = <<>> /\ cleaned = <<>> /\ processed = <<>> /\ stage = "idle"
IdleEmp ==
  /\ bound = FALSE /\ _name = Unset /\ _age = Unset
  /\ op = "idle" /\ arg = Unset /\ arg_name = Unset
  /\ exc = "none" /\ msg = "" /\ ret = Unset
  /\ pre_bound = FALSE /\ pre_name = Unset /\ pre_age = Unset
IdleExc ==
  /\ script = "idle" /\ age = <<>> /\ pc = "idle" /\ console = <<>>
  /\ returned = "" /\ pending = "none" /\ finally_runs = 0
IdleFile ==
  /\ fscript = "idle" /\ fpc = 0 /\ handles = {} /\ fs = {} /\ uncaught = "none"
IdleDir ==
  /\ Section_dir = [kind |-> "absent", items |-> {}]
  /\ Section_new_dir = [kind |-> "absent", items |-> {}]
  /\ dir_pc = 0 /\ dir_exc = "none"
  /\ start_dir = Section_dir /\ start_new_dir = Section_new_dir
IdleGc ==
  /\ heap = <<>> /\ parent_instance = 0 /\ parent_id = 0 /\ child_id = 0
  /\ gc_op = "idle" /\ seen_exists = <<>> /\ seen_refs = <<>>
  /\ collected = 0 /\ freed_by_refcount = FALSE
IdleCls ==
  /\ Counter = 0 /\ phones = <<>> /\ total_students = 0 /\ students = <<>>
  /\ cls_op = "idle" /\ printed = 0 /\ pre_Counter = 0 /\ pre_total_students = 0

(* ---------------- create_property.py ---------------- *)

\* Employee1.set_age: the negative-age ValueError is raised inside the try
\* whose except ValueError clause replaces it; a TypeError of int() is not
\* caught and propagates as it is.
Employee1_set_age(value) ==
  LET conv == PyInt(value)
      tried == IF conv.exc # "none" THEN conv
               ELSE IF conv.val.n < 0
                    THEN Raise("ValueError", "Age should be positive")
                    ELSE Ok(conv.val)
  IN IF tried.exc = "ValueError"
     THEN Raise("ValueError", "Invalid age value")
     ELSE tried

\* the name setters: the value is stored as it is
Employee2_set_name(value) ==
  IF ~IsStr(value) THEN Raise("TypeError", "Name must be string")
  ELSE Ok(value)

Employee3_set_name(value) ==
  IF ~IsStr(value) THEN Raise("TypeError", "Name must be string")
  ELSE Ok(value)

\* a variant of the Employee4 name setter without the isinstance check
Employee4_name_unchecked(value) == Ok(value)

Employee4_name(value) ==
  IF ~IsStr(value) THEN Raise("TypeError", "Name must be a string")
  ELSE Ok(value)

\* the age setters: a value that is no int and no float goes through int(),
\* whose every failure the bare except turns into a TypeError; an int or a
\* float is kept as it is.
Employee2_set_age(value) ==
  LET conv == IF IsIntOrFloat(value) THEN Ok(value) ELSE PyInt(value)
  IN IF conv.exc # "none" THEN Raise("TypeError", "Age must be numeric")
     ELSE IF LessThanZero(conv.val) THEN Raise("ValueError", "Age must be positive")
     ELSE Ok(conv.val)

Employee3_set_age(value) ==
  LET conv == IF IsIntOrFloat(value) THEN Ok(value) ELSE PyInt(value)
  IN IF conv.exc # "none" THEN Raise("TypeError", "Age must be numeric")
     ELSE IF LessThanZero(conv.val) THEN Raise("ValueError", "Age must be positive")
     ELSE Ok(conv.val)

\* a variant of the Employee4 age setter that checks int(value) but stores
\* the value as it was given
Employee4_age_unconverted(value) ==
  LET conv == IF IsIntOrFloat(value) THEN Ok(value) ELSE PyInt(value)
  IN IF conv.exc # "none" THEN Raise("TypeError", "Age must be numeric")
     ELSE IF LessThanZero(conv.val)
          THEN Raise("ValueError", "Age must be a positive number")
     ELSE Ok(value)

Employee4_age(value) ==
  LET conv == IF IsIntOrFloat(value) THEN Ok(value) ELSE PyInt(value)
  IN IF conv.exc # "none" THEN Raise("TypeError", "Age must be numeric")
     ELSE IF LessThanZero(conv.val)
          THEN Raise("ValueError", "Age must be a positive number")
     ELSE Ok(conv.val)

\* a call is recorded with its argument, its outcome and the instance before it
Record(call, value, res) ==
  /\ op' = call /\ arg' = value
  /\ exc' = res.exc /\ msg' = res.msg
  /\ pre_bound' = bound /\ pre_name' = _name /\ pre_age' = _age

\* obj.set_age(value) of Employee1: the checked age is returned, not stored
CallEmployee1SetAge ==
  /\ op = "none"
  /\ LET res == Employee1_set_age(arg)
     IN Record("Employee1.set_age", arg, res) /\ ret' = res.val
  /\ UNCHANGED <<bound, _name, _age, arg_name>>
  /\ UNCHANGED <<pipeVars, excVars, fileVars, dirVars, gcVars, clsVars>>

\* a name setter stores the value unless it raised
StoreName(call, value, res) ==
  /\ Record(call, value, res)
  /\ _name' = IF res.exc = "none" THEN res.val ELSE _name
  /\ UNCHANGED <<bound, _age, arg_name, ret>>
  /\ UNCHANGED <<pipeVars, excVars, fileVars, dirVars, gcVars, clsVars>>

\* an age setter stores the value unless it raised
StoreAge(call, value, res) ==
  /\ Record(call, value, res)
  /\ _age' = IF res.exc = "none" THEN res.val ELSE _age
  /\ UNCHANGED <<bound, _name, arg_name, ret>>
  /\ UNCHANGED <<pipeVars, excVars, fileVars, dirVars, gcVars, clsVars>>

CallEmployee2SetName == op = "none" /\ StoreName("Employee2.set_name", arg, Employee2_set_name(arg))
CallEmployee3SetName == op = "none" /\ StoreName("Employee3.name", arg, Employee3_set_name(arg))
CallEmployee4SetName == op = "none" /\ StoreName("Employee4.name", arg, Employee4_name(arg))
CallEmployee2SetAge == op = "none" /\ StoreAge("Employee2.set_age", arg, Employee2_set_age(arg))
CallEmployee3SetAge == op = "none" /\ StoreAge("Employee3.age", arg, Employee3_set_age(arg))
CallEmployee4SetAge == op = "none" /\ StoreAge("Employee4.age", arg, Employee4_age(arg))

\* One call of one setter on an instance holding ("Bob", 25), the argument
\* drawn from Inputs.
InitSetters ==
  /\ IdlePipe /\ IdleExc /\ IdleFile /\ IdleDir /\ IdleGc /\ IdleCls
  /\ bound = TRUE
  /\ _name = StrV(<<"B", "o", "b">>) /\ _age = IntV(25)
  /\ op = "none" /\ arg \in Inputs /\ arg_name = Unset
  /\ exc = "none" /\ msg = "" /\ ret = Unset
  /\ pre_bound = TRUE /\ pre_name = _name /\ pre_age = _age

NextSetters ==
  \/ CallEmployee1SetAge
  \/ CallEmployee2SetName
  \/ CallEmployee2SetAge
  \/ CallEmployee3SetName
  \/ CallEmployee3SetAge
  \/ CallEmployee4SetName
  \/ CallEmployee4SetAge

SpecSetters == InitSetters /\ [][NextSetters]_vars

(* ---------------- Employee4: construction and assignments ---------------- *)

\* the values the demo and its variations hand to Employee4: "Alice", "30",
\* "abc", "-5", 123, -10, 0, 30.5, -0.5, NaN, True, None
DemoValues ==
  {StrV(<<"A", "l", "i", "c", "e">>), StrV(<<"3", "0">>),
   StrV(<<"a", "b", "c">>), StrV(<<"-", "5">>),
   IntV(123), IntV(-10), IntV(0), FloatV(61), FloatV(-1), NaN, BoolV(1), NoneV}

\* emp = Employee4(name, value): __init__ assigns through both properties;
\* the first setter that raises ends the construction and emp is not rebound.
Employee4Init ==
  \E name \in DemoValues, value \in DemoValues :
    LET rn == Employee4_name(name)
        ra == Employee4_age(value)
        res == IF rn.exc # "none" THEN rn ELSE ra
    IN /\ Record("Employee4.__init__", value, res)
       /\ arg_name' = name
       /\ bound' = (bound \/ res.exc = "none")
       /\ _name' = IF res.exc = "none" THEN rn.val ELSE _name
       /\ _age' = IF res.exc = "none" THEN ra.val ELSE _age
       /\ UNCHANGED ret
       /\ UNCHANGED <<pipeVars, excVars, fileVars, dirVars, gcVars, clsVars>>

\* emp.name = value
Employee4AssignName ==
  /\ bound
  /\ \E value \in DemoValues :
       StoreName("Employee4.name", value, Employee4_name(value))

\* emp.age = value
Employee4AssignAge ==
  /\ bound
  /\ \E value \in DemoValues :
       StoreAge("Employee4.age", value, Employee4_age(value))

Init ==
  /\ IdlePipe /\ IdleExc /\ IdleFile /\ IdleDir /\ IdleGc /\ IdleCls
  /\ bound = FALSE /\ _name = Unset /\ _age = Unset
  /\ op = "none" /\ arg = Unset /\ arg_name = Unset
  /\ exc = "none" /\ msg = "" /\ ret = Unset
  /\ pre_bound = FALSE /\ pre_name = Unset /\ pre_age = Unset

Next ==
  \/ Employee4Init
  \/ Employee4AssignName
  \/ Employee4AssignAge

Spec == Init /\ [][Next]_vars

(* ---------------- Section_8_Exception_Handling ---------------- *)

ExceptionScripts == {"try.py", "try_except.py", "try_except_finally.py"}

\* a variant in which no script has the except ZeroDivisionError clause
Handlers_value_error_only(s) == {"ValueError"}

\* the except clauses of the script's try statement
Handlers(s) ==
  IF s = "try.py" THEN {"ValueError"}
  ELSE {"ZeroDivisionError", "ValueError"}

\* a variant in which the early return skips the finally clause
FinallyFrom_not_on_return(s) ==
  IF s = "try_except_finally.py" THEN {"handled", "unhandled"}
  ELSE {}

\* the points of the try statement a finally clause runs after: the pending
\* return, the end of a handler, an exception no clause caught
FinallyFrom(s) ==
  IF s = "try_except_finally.py" THEN {"returning", "handled", "unhandled"}
  ELSE {}

\* the try block: input(), 100 / int(age), print, return "Success"
TryBlock ==
  /\ pc = "call"
  /\ \E typed \in Strings :
       LET conv == PyInt(StrV(typed))
           raised == IF conv.exc # "none" THEN conv.exc
                     ELSE IF conv.val.n = 0 THEN "ZeroDivisionError"
                     ELSE "none"
       IN /\ age' = typed
          /\ pending' = IF raised = "none" THEN "return" ELSE raised
          /\ console' = IF raised = "none" THEN Append(console, "Result of 100 / age")
                        ELSE console
          /\ pc' = IF raised = "none" THEN "returning"
                   ELSE IF raised \in Handlers(script) THEN "except"
                   ELSE "unhandled"
  /\ UNCHANGED <<script, returned, finally_runs>>
  /\ UNCHANGED <<pipeVars, empVars, fileVars, dirVars, gcVars, clsVars>>

ExceptZeroDivisionError ==
  /\ pc = "except" /\ pending = "ZeroDivisionError"
  /\ console' = console \o <<"Caught an error: Cannot divide by zero.", "Exception: e">>
  /\ pending' = "none"
  /\ pc' = "handled"
  /\ UNCHANGED <<script, age, returned, finally_runs>>
  /\ UNCHANGED <<pipeVars, empVars, fileVars, dirVars, gcVars, clsVars>>

ExceptValueError ==
  /\ pc = "except" /\ pending = "ValueError"
  /\ console' = console \o <<"Caught an error: Invalid input.", "Exception: e">>
  /\ pending' = "none"
  /\ pc' = "handled"
  /\ UNCHANGED <<script, age, returned, finally_runs>>
  /\ UNCHANGED <<pipeVars, empVars, fileVars, dirVars, gcVars, clsVars>>

\* the finally clause; what was pending (the return value, an uncaught
\* exception) stays pending
Finally ==
  /\ pc \in FinallyFrom(script)
  /\ console' = Append(console, "Finally block executed")
  /\ finally_runs' = finally_runs + 1
  /\ pc' = "finalized"
  /\ UNCHANGED <<script, age, returned, pending>>
  /\ UNCHANGED <<pipeVars, empVars, fileVars, dirVars, gcVars, clsVars>>

\* control goes back to the caller with the function's value
Return ==
  /\ pc \in {"returning", "handled", "finalized"} \ FinallyFrom(script)
  /\ pending \in {"return", "none"}
  /\ returned' = IF pending = "return" THEN "Success" ELSE "None"
  /\ pending' = "none"
  /\ pc' = "done"
  /\ UNCHANGED <<script, age, console, finally_runs>>
  /\ UNCHANGED <<pipeVars, empVars, fileVars, dirVars, gcVars, clsVars>>

\* an exception no clause caught leaves the function
Propagate ==
  /\ pc \in {"unhandled", "finalized"} \ FinallyFrom(script)
  /\ pending \notin {"return", "none"}
  /\ pc' = "escaped"
  /\ UNCHANGED <<script, age, console, returned, pending, finally_runs>>
  /\ UNCHANGED <<pipeVars, empVars, fileVars, dirVars, gcVars, clsVars>>

InitExc ==
  /\ IdlePipe /\ IdleEmp /\ IdleFile /\ IdleDir /\ IdleGc /\ IdleCls
  /\ script \in ExceptionScripts
  /\ age = <<>> /\ pc = "call" /\ console = <<>>
  /\ returned = "" /\ pending = "none" /\ finally_runs = 0

NextExc ==
  \/ TryBlock
  \/ ExceptZeroDivisionError
  \/ ExceptValueError
  \/ Finally
  \/ Return
  \/ Propagate

SpecExc == InitExc /\ [][NextExc]_vars

(* ---------------- data_processing_project ---------------- *)

Elements(data) == {data[i] : i \in 1..Len(data)}

\* the lists without repetition that hold exactly the elements of S
Orderings(S) ==
  {l \in [1..Cardinality(S) -> S] : \A i, j \in 1..Cardinality(S) : l[i] = l[j] => i = j}

\* a variant that copies the list without going through a set
remove_duplicates_copy(data) == {data}

\* list(set(data)): the iteration order of a set is not specified, so every
\* ordering of the distinct elements is a possible result
_remove_duplicates(data) == Orderings(Elements(data))

clean_data(data) == _remove_duplicates(data)

\* a variant that adds two instead of doubling
process_data_plus_two(data) == [i \in 1..Len(data) |-> data[i] + 2]

process_data(data) == [i \in 1..Len(data) |-> data[i] * 2]

Lists == UNION {[1..k -> -MaxVal..MaxVal] : k \in 0..MaxLen}

\* main.py line 10: cleaned = cleaner.clean_data(raw_data)
MainClean ==
  /\ stage = "start"
  /\ cleaned' \in clean_data(raw_data)
  /\ stage' = "cleaned"
  /\ UNCHANGED <<raw_data, processed>>
  /\ UNCHANGED <<empVars, excVars, fileVars, dirVars, gcVars, clsVars>>

\* main.py line 11: processed = utils.process_data(cleaned)
MainProcess ==
  /\ stage = "cleaned"
  /\ processed' = process_data(cleaned)
  /\ stage' = "processed"
  /\ UNCHANGED <<raw_data, cleaned>>
  /\ UNCHANGED <<empVars, excVars, fileVars, dirVars, gcVars, clsVars>>

\* utils.process_data called on a list as it is, repetitions included
CallProcessData ==
  /\ stage = "start"
  /\ processed' = process_data(raw_data)
  /\ stage' = "processed_raw"
  /\ UNCHANGED <<raw_data, cleaned>>
  /\ UNCHANGED <<empVars, excVars, fileVars, dirVars, gcVars, clsVars>>

InitPipe ==
  /\ IdleEmp /\ IdleExc /\ IdleFile /\ IdleDir /\ IdleGc /\ IdleCls
  /\ raw_data \in Lists
  /\ cleaned = <<>> /\ processed = <<>> /\ stage = "start"

NextPipe ==
  \/ MainClean
  \/ MainProcess
  \/ CallProcessData

SpecPipe == InitPipe /\ [][NextPipe]_vars

(* ---------------- Section_12_files ---------------- *)

FileScripts == {"read_file.py", "write_file.py", "read_csv.py", "write_csv.py",
                "rename_file.py", "remove_file.py"}

Files == {"sample.txt", "test.txt", "country.csv", "countries.csv", "country_dict.csv"}

\* One statement of a script.  k: its kind; f: the file; g: the target of a
\* rename; m: the mode of an open; w: whether the open is the head of a with
\* block; j: where an if whose condition is false goes on.
Stmt(k, f, g, m, w, j) == [k |-> k, f |-> f, g |-> g, m |-> m, w |-> w, j |-> j]
Open(f, m) == Stmt("open", f, "", m, FALSE, 0)
WithOpen(f, m) == Stmt("open", f, "", m, TRUE, 0)
Io(f) == Stmt("io", f, "", "", FALSE, 0)
Close(f) == Stmt("close", f, "", "", FALSE, 0)
EndWith(f) == Stmt("endwith", f, "", "", TRUE, 0)
IfMissing(f, j) == Stmt("if_missing", f, "", "", FALSE, j)
IfExists(f, j) == Stmt("if_exists", f, "", "", FALSE, j)
Rename(f, g) == Stmt("rename", f, g, "", FALSE, 0)
Remove(f) == Stmt("remove", f, "", "", FALSE, 0)

read_file ==
  << Open("sample.txt", "r"), Io("sample.txt"), Close("sample.txt"),
     WithOpen("sample.txt", "r"), Io("sample.txt"), EndWith("sample.txt") >>

write_file ==
  << Open("sample.txt", "w"), Io("sample.txt"), Close("sample.txt"),
     WithOpen("sample.txt", "a"), Io("sample.txt"), EndWith("sample.txt") >>

read_csv ==
  << WithOpen("country.csv", "r"), Io("country.csv"), EndWith("country.csv") >>

write_csv ==
  << IfMissing("countries.csv", 4),
     Open("countries.csv", "x"), Close("countries.csv"),
     Open("countries.csv", "w"), Io("countries.csv"), Io("countries.csv"),
     Close("countries.csv"),
     IfMissing("country_dict.csv", 11),
     Open("country_dict.csv", "x"), Close("country_dict.csv"),
     WithOpen("country_dict.csv", "w"), Io("country_dict.csv"),
     Io("country_dict.csv"), EndWith("country_dict.csv") >>

\* lines 3-11, which rename_file.py and remove_file.py share
create_and_read ==
  << IfMissing("test.txt", 5),
     WithOpen("test.txt", "x"), Io("test.txt"), EndWith("test.txt"),
     WithOpen("test.txt", "r"), Io("test.txt"), EndWith("test.txt") >>

rename_file == create_and_read \o << Rename("test.txt", "sample.txt") >>

remove_file ==
  create_and_read
    \o << IfExists("test.txt", 11), Remove("test.txt"), Remove("sample.txt") >>

Program(s) ==
  CASE s = "read_file.py" -> read_file
    [] s = "write_file.py" -> write_file
    [] s = "read_csv.py" -> read_csv
    [] s = "write_csv.py" -> write_csv
    [] s = "rename_file.py" -> rename_file
    [] s = "remove_file.py" -> remove_file

Running == uncaught = "none" /\ fpc \in 1..Len(Program(fscript))
Terminated == uncaught # "none" \/ fpc > Len(Program(fscript))
Current == Program(fscript)[fpc]

\* An exception leaves the script: every with block it passes releases its
\* handle on the way out, a handle opened by a plain open() stays as it is.
Unwind(open_handles) == {h \in open_handles : ~h.w}

Fail(e) ==
  /\ uncaught' = e
  /\ handles' = Unwind(handles)
  /\ UNCHANGED <<fscript, fpc, fs>>

\* open(f, mode): "r" needs the file, "x" needs it absent, "w", "a" and "x"
\* create it
OpenFile ==
  /\ Running /\ Current.k = "open"
  /\ IF Current.m = "r" /\ Current.f \notin fs THEN Fail("FileNotFoundError")
     ELSE IF Current.m = "x" /\ Current.f \in fs THEN Fail("FileExistsError")
     ELSE /\ handles' = handles \cup {[f |-> Current.f, w |-> Current.w, at |-> fpc]}
          /\ fs' = fs \cup {Current.f}
          /\ fpc' = fpc + 1
          /\ UNCHANGED <<fscript, uncaught>>
  /\ UNCHANGED <<pipeVars, empVars, excVars, dirVars, gcVars, clsVars>>

\* a read or a write on the handle goes through
IoDone ==
  /\ Running /\ Current.k = "io"
  /\ fpc' = fpc + 1
  /\ UNCHANGED <<fscript, handles, fs, uncaught>>
  /\ UNCHANGED <<pipeVars, empVars, excVars, dirVars, gcVars, clsVars>>

\* a read or a write on the handle raises (an OSError of the device, a
\* UnicodeDecodeError of the content)
IoRaises ==
  /\ Running /\ Current.k = "io"
  /\ Fail("OSError")
  /\ UNCHANGED <<pipeVars, empVars, excVars, dirVars, gcVars, clsVars>>

\* file.close()
CloseFile ==
  /\ Running /\ Current.k = "close"
  /\ handles' = {h \in handles : h.f # Current.f}
  /\ fpc' = fpc + 1
  /\ UNCHANGED <<fscript, fs, uncaught>>
  /\ UNCHANGED <<pipeVars, empVars, excVars, dirVars, gcVars, clsVars>>

\* the end of a with block
ExitWith ==
  /\ Running /\ Current.k = "endwith"
  /\ handles' = {h \in handles : h.f # Current.f}
  /\ fpc' = fpc + 1
  /\ UNCHANGED <<fscript, fs, uncaught>>
  /\ UNCHANGED <<pipeVars, empVars, excVars, dirVars, gcVars, clsVars>>

\* if not exists(f): the block is skipped when the file is there
IfNotExists ==
  /\ Running /\ Current.k = "if_missing"
  /\ fpc' = IF Current.f \in fs THEN Current.j ELSE fpc + 1
  /\ UNCHANGED <<fscript, handles, fs, uncaught>>
  /\ UNCHANGED <<pipeVars, empVars, excVars, dirVars, gcVars, clsVars>>

\* if exists(f): the block is skipped when the file is missing
IfFileExists ==
  /\ Running /\ Current.k = "if_exists"
  /\ fpc' = IF Current.f \in fs THEN fpc + 1 ELSE Current.j
  /\ UNCHANGED <<fscript, handles, fs, uncaught>>
  /\ UNCHANGED <<pipeVars, empVars, excVars, dirVars, gcVars, clsVars>>

\* os.rename(f, g)
RenameFile ==
  /\ Running /\ Current.k = "rename"
  /\ IF Current.f \notin fs THEN Fail("FileNotFoundError")
     ELSE /\ fs' = (fs \ {Current.f}) \cup {Current.g}
          /\ fpc' = fpc + 1
          /\ UNCHANGED <<fscript, handles, uncaught>>
  /\ UNCHANGED <<pipeVars, empVars, excVars, dirVars, gcVars, clsVars>>

\* os.remove(f)
RemoveFile ==
  /\ Running /\ Current.k = "remove"
  /\ IF Current.f \notin fs THEN Fail("FileNotFoundError")
     ELSE /\ fs' = fs \ {Current.f}
          /\ fpc' = fpc + 1
          /\ UNCHANGED <<fscript, handles, uncaught>>
  /\ UNCHANGED <<pipeVars, empVars, excVars, dirVars, gcVars, clsVars>>

InitFile ==
  /\ IdlePipe /\ IdleEmp /\ IdleExc /\ IdleDir /\ IdleGc /\ IdleCls
  /\ fscript \in FileScripts
  /\ fpc = 1 /\ handles = {} /\ uncaught = "none"
  /\ fs \in SUBSET Files

NextFile ==
  \/ OpenFile
  \/ IoDone
  \/ IoRaises
  \/ CloseFile
  \/ ExitWith
  \/ IfNotExists
  \/ IfFileExists
  \/ RenameFile
  \/ RemoveFile

SpecFile == InitFile /\ [][NextFile]_vars

(* ---------------- Section_13_Directory/rename_dir.py ---------------- *)

\* What a path is: nothing, a regular file, or a directory with its entries.
Absent == [kind |-> "absent", items |-> {}]
RegularFile == [kind |-> "file", items |-> {}]
Directory(entries) == [kind |-> "dir", items |-> entries]

PathStates == {Absent, RegularFile} \cup {Directory(e) : e \in SUBSET (1..MaxEntries)}

\* os.path.exists, os.path.isdir
exists(p) == p.kind # "absent"
isdir(p) == p.kind = "dir"

\* os.mkdir(path): the exception it raises, "none" when the directory is made
os_mkdir(p) == IF exists(p) THEN "FileExistsError" ELSE "none"

\* os.rename(src, dst): the exception it raises, "none" when dst becomes src
os_rename(src, dst) ==
  IF ~exists(src) THEN "FileNotFoundError"
  ELSE IF isdir(src) /\ exists(dst) /\ ~isdir(dst) THEN "NotADirectoryError"
  ELSE IF ~isdir(src) /\ isdir(dst) THEN "IsADirectoryError"
  ELSE IF isdir(src) /\ isdir(dst) /\ dst.items # {} THEN "OSError"
  ELSE "none"

\* lines 5-8: if not exists(old_path) or isdir(old_path): mkdir(old_path)
CreateOldPath ==
  /\ dir_pc = 5 /\ dir_exc = "none"
  /\ IF ~exists(Section_dir) \/ isdir(Section_dir)
     THEN /\ dir_exc' = os_mkdir(Section_dir)
          /\ Section_dir' = IF os_mkdir(Section_dir) = "none" THEN Directory({})
                            ELSE Section_dir
          /\ dir_pc' = IF os_mkdir(Section_dir) = "none" THEN 10 ELSE dir_pc
     ELSE /\ dir_pc' = 10
          /\ UNCHANGED <<Section_dir, dir_exc>>
  /\ UNCHANGED <<Section_new_dir, start_dir, start_new_dir>>
  /\ UNCHANGED <<pipeVars, empVars, excVars, fileVars, gcVars, clsVars>>

\* lines 10-15: if exists(old_path) and not isdir(new_path): rename
RenameOldPath ==
  /\ dir_pc = 10 /\ dir_exc = "none"
  /\ IF exists(Section_dir) /\ ~isdir(Section_new_dir)
     THEN LET e == os_rename(Section_dir, Section_new_dir)
          IN /\ dir_exc' = e
             /\ Section_new_dir' = IF e = "none" THEN Section_dir ELSE Section_new_dir
             /\ Section_dir' = IF e = "none" THEN Absent ELSE Section_dir
             /\ dir_pc' = IF e = "none" THEN 16 ELSE dir_pc
     ELSE /\ dir_pc' = 16
          /\ UNCHANGED <<Section_dir, Section_new_dir, dir_exc>>
  /\ UNCHANGED <<start_dir, start_new_dir>>
  /\ UNCHANGED <<pipeVars, empVars, excVars, fileVars, gcVars, clsVars>>

InitDir ==
  /\ IdlePipe /\ IdleEmp /\ IdleExc /\ IdleFile /\ IdleGc /\ IdleCls
  /\ Section_dir \in PathStates /\ Section_new_dir \in PathStates
  /\ start_dir = Section_dir /\ start_new_dir = Section_new_dir
  /\ dir_pc = 5 /\ dir_exc = "none"

NextDir ==
  \/ CreateOldPath
  \/ RenameOldPath

SpecDir == InitDir /\ [][NextDir]_vars

(* ---------------- Memory Management/garbage_collection.py ---------------- *)

\* The heap is a row of cells, a cell's address its index.  A live cell holds
\* an instance: its class, its reference count, and the addresses its
\* attributes child and parent refer to (0: no such attribute).
Addresses == 1..(2 * MaxPairs)

FreeCell == [st |-> "free", cls |-> "", refcount |-> 0, child |-> 0, parent |-> 0]
NewObject(c) == [st |-> "live", cls |-> c, refcount |-> 1, child |-> 0, parent |-> 0]

\* the addresses an object's attributes refer to
Referents(o) == {o.child, o.parent} \ {0}

IncRef(h, a) == [h EXCEPT ![a].refcount = @ + 1]

\* Dropping one reference: at zero the object is deallocated at once, which
\* drops the references its attributes held.
RECURSIVE DecRef(_, _)
DecRef(h, a) ==
  IF h[a].refcount > 1 THEN [h EXCEPT ![a].refcount = @ - 1]
  ELSE LET o == h[a]
           h1 == [h EXCEPT ![a] = FreeCell]
           h2 == IF o.child # 0 THEN DecRef(h1, o.child) ELSE h1
       IN IF o.parent # 0 THEN DecRef(h2, o.parent) ELSE h2

\* a variant of ChildObject.__init__ that keeps no reference to the parent
ChildObject_init_no_parent(h, c, p) == h

\* ChildObject.__init__(self, parent): self.parent = parent
ChildObject_init(h, c, p) == IncRef([h EXCEPT ![c].parent = p], p)

\* ParentObject.__init__(self): self.child = ChildObject(self); the new child
\* is referred to by self.child alone
ParentObject_init(h, p, c) ==
  LET h1 == [h EXCEPT ![c] = NewObject("ChildObject")]
      h2 == ChildObject_init(h1, c, p)
  IN [h2 EXCEPT ![p].child = c]

Live(h) == {a \in Addresses : h[a].st = "live"}

\* ref_count(address): the count of a live object; the word read at the
\* address of a freed one is whatever the allocator left there
ref_count(h, a) == IF h[a].st = "live" THEN {h[a].refcount} ELSE 0..3

\* object_exists(object_id): some object gc.get_objects() lists has this id
object_exists(h, a) == \E o \in Live(h) : o = a

\* gc.collect().  An object's count minus the references held by tracked
\* objects is what the outside holds; whatever cannot be reached from an
\* object the outside holds is garbage.
ExternallyHeld(h) ==
  {a \in Live(h) :
     h[a].refcount > Cardinality({b \in Live(h) : a \in Referents(h[b])})}

RECURSIVE ReachableFrom(_, _)
ReachableFrom(h, S) ==
  LET T == S \cup UNION {Referents(h[a]) : a \in S}
  IN IF T = S THEN S ELSE ReachableFrom(h, T)

Garbage(h) == Live(h) \ ReachableFrom(h, ExternallyHeld(h))

\* the garbage is freed as a whole; what it referred to outside itself
\* loses those references
Sweep(h) ==
  [a \in Addresses |->
     IF a \in Garbage(h) THEN FreeCell
     ELSE IF h[a].st = "live"
          THEN [h[a] EXCEPT !.refcount =
                  @ - Cardinality({b \in Garbage(h) : a \in Referents(h[b])})]
          ELSE h[a]]

\* lines 65-70: parent_instance = ParentObject(), then the ids are saved.
\* The instance is built before the name lets go of what it referred to.
CreateParent ==
  /\ \E p \in Addresses, c \in Addresses :
       /\ p # c /\ heap[p].st = "free" /\ heap[c].st = "free"
       /\ LET h1 == [heap EXCEPT ![p] = NewObject("ParentObject")]
              h2 == ParentObject_init(h1, p, c)
              h3 == IF parent_instance # 0 THEN DecRef(h2, parent_instance) ELSE h2
          IN /\ heap' = h3
             /\ freed_by_refcount' = (freed_by_refcount \/ Live(h3) # Live(h2))
       /\ parent_instance' = p
       /\ parent_id' = p /\ child_id' = c
  /\ gc_op' = "create"
  /\ seen_exists' = <<>> /\ seen_refs' = <<>>
  /\ UNCHANGED collected
  /\ UNCHANGED <<pipeVars, empVars, excVars, fileVars, dirVars, clsVars>>

\* line 86: parent_instance = None
DropReference ==
  /\ LET h1 == IF parent_instance # 0 THEN DecRef(heap, parent_instance) ELSE heap
     IN /\ heap' = h1
        /\ freed_by_refcount' = (freed_by_refcount \/ Live(h1) # Live(heap))
  /\ parent_instance' = 0
  /\ gc_op' = IF parent_instance # 0 THEN "drop" ELSE gc_op
  /\ seen_exists' = IF parent_instance # 0 THEN <<>> ELSE seen_exists
  /\ seen_refs' = IF parent_instance # 0 THEN <<>> ELSE seen_refs
  /\ UNCHANGED <<parent_id, child_id, collected>>
  /\ UNCHANGED <<pipeVars, empVars, excVars, fileVars, dirVars, clsVars>>

\* lines 78-79, 94-95, 102-103: object_exists of both saved ids
CheckExists ==
  /\ parent_id # 0
  /\ seen_exists' = <<object_exists(heap, parent_id), object_exists(heap, child_id)>>
  /\ UNCHANGED <<heap, parent_instance, parent_id, child_id, gc_op, seen_refs,
                 collected, freed_by_refcount>>
  /\ UNCHANGED <<pipeVars, empVars, excVars, fileVars, dirVars, clsVars>>

\* lines 82-83, 90-91, 107-108: ref_count of both saved ids
ReadRefCounts ==
  /\ parent_id # 0
  /\ \E x \in ref_count(heap, parent_id), y \in ref_count(heap, child_id) :
       seen_refs' = <<x, y>>
  /\ UNCHANGED <<heap, parent_instance, parent_id, child_id, gc_op, seen_exists,
                 collected, freed_by_refcount>>
  /\ UNCHANGED <<pipeVars, empVars, excVars, fileVars, dirVars, clsVars>>

\* line 98: collected = gc.collect()
Collect ==
  /\ heap' = Sweep(heap)
  /\ collected' = Cardinality(Garbage(heap))
  /\ gc_op' = "collect"
  /\ seen_exists' = <<>> /\ seen_refs' = <<>>
  /\ UNCHANGED <<parent_instance, parent_id, child_id, freed_by_refcount>>
  /\ UNCHANGED <<pipeVars, empVars, excVars, fileVars, dirVars, clsVars>>

\* after line 55: the automatic collector is off and no instance exists yet
InitGc ==
  /\ IdlePipe /\ IdleEmp /\ IdleExc /\ IdleFile /\ IdleDir /\ IdleCls
  /\ heap = [a \in Addresses |-> FreeCell]
  /\ parent_instance = 0 /\ parent_id = 0 /\ child_id = 0
  /\ gc_op = "none" /\ seen_exists = <<>> /\ seen_refs = <<>>
  /\ collected = 0 /\ freed_by_refcount = FALSE

NextGc ==
  \/ CreateParent
  \/ DropReference
  \/ CheckExists
  \/ ReadRefCounts
  \/ Collect

SpecGc == InitGc /\ [][NextGc]_vars

(* ---------------- Classes_Objects: attribute.py, class_method.py ---------------- *)

\* the (model, type) pairs and the names the scripts use
PhoneValues == {<<"None", "None">>, <<"Honor", "Android">>}
StudentNames == {"Alice", "Bob"}

\* a variant of Smartphone.__init__ that leaves the class attribute alone
Smartphone_init_no_increment(C, model, type) ==
  [self |-> [model |-> model, type |-> type], Counter |-> C]

\* Smartphone.__init__(self, model, type): the instance's attributes and the
\* class attribute after Smartphone.Counter += 1
Smartphone_init(C, model, type) ==
  [self |-> [model |-> model, type |-> type], Counter |-> C + 1]

\* Student.__init__(self, name)
Student_init(T, name) ==
  [self |-> [name |-> name], total_students |-> T + 1]

\* the class object Student and the class of an instance
Student == [total_students |-> total_students]
type(s) == Student

\* Student.introduce(self): prints the name, returns None
introduce(self) == self.name

\* Student.student_count(cls): the number it prints
student_count(cls) == cls.total_students

\* what every statement does first: remember the counters as they were
Remember(o) ==
  /\ cls_op' = o
  /\ pre_Counter' = Counter
  /\ pre_total_students' = total_students

\* attribute.py line 16: Smartphone(model, type)
NewSmartphone ==
  /\ Len(phones) < MaxInstances
  /\ \E v \in PhoneValues :
       LET r == Smartphone_init(Counter, v[1], v[2])
       IN /\ phones' = Append(phones, r.self)
          /\ Counter' = r.Counter
  /\ Remember("Smartphone")
  /\ UNCHANGED <<total_students, students, printed>>
  /\ UNCHANGED <<pipeVars, empVars, excVars, fileVars, dirVars, gcVars>>

\* attribute.py lines 14, 17: print(Smartphone.Counter)
PrintCounter ==
  /\ printed' = Counter
  /\ Remember("print_Counter")
  /\ UNCHANGED <<Counter, phones, total_students, students>>
  /\ UNCHANGED <<pipeVars, empVars, excVars, fileVars, dirVars, gcVars>>

\* attribute.py line 18: smart.model, smart.type = ...
AssignModelType ==
  /\ \E i \in 1..Len(phones), v \in PhoneValues :
       phones' = [phones EXCEPT ![i] = [model |-> v[1], type |-> v[2]]]
  /\ Remember("assign")
  /\ UNCHANGED <<Counter, total_students, students, printed>>
  /\ UNCHANGED <<pipeVars, empVars, excVars, fileVars, dirVars, gcVars>>

\* attribute.py lines 11-12: smart.features()
Features ==
  /\ \E i \in 1..Len(phones) : TRUE
  /\ Remember("features")
  /\ UNCHANGED <<Counter, phones, total_students, students, printed>>
  /\ UNCHANGED <<pipeVars, empVars, excVars, fileVars, dirVars, gcVars>>

\* class_method.py lines 15-16: Student(name)
NewStudent ==
  /\ Len(students) < MaxInstances
  /\ \E n \in StudentNames :
       LET r == Student_init(total_students, n)
       IN /\ students' = Append(students, r.self)
          /\ total_students' = r.total_students
  /\ Remember("Student")
  /\ UNCHANGED <<Counter, phones, printed>>
  /\ UNCHANGED <<pipeVars, empVars, excVars, fileVars, dirVars, gcVars>>

\* class_method.py lines 18-19: s.introduce()
Introduce ==
  /\ \E i \in 1..Len(students) : introduce(students[i]) \in StudentNames
  /\ Remember("introduce")
  /\ UNCHANGED <<Counter, phones, total_students, students, printed>>
  /\ UNCHANGED <<pipeVars, empVars, excVars, fileVars, dirVars, gcVars>>

\* class_method.py line 21: Student.student_count()
StudentCountOnClass ==
  /\ printed' = student_count(Student)
  /\ Remember("Student.student_count")
  /\ UNCHANGED <<Counter, phones, total_students, students>>
  /\ UNCHANGED <<pipeVars, empVars, excVars, fileVars, dirVars, gcVars>>

\* class_method.py line 23: s.student_count(), cls bound to the instance's class
StudentCountOnInstance ==
  /\ \E i \in 1..Len(students) : printed' = student_count(type(students[i]))
  /\ Remember("instance.student_count")
  /\ UNCHANGED <<Counter, phones, total_students, students>>
  /\ UNCHANGED <<pipeVars, empVars, excVars, fileVars, dirVars, gcVars>>

\* the class bodies have run (attribute.py line 3, class_method.py line 2)
InitCls ==
  /\ IdlePipe /\ IdleEmp /\ IdleExc /\ IdleFile /\ IdleDir /\ IdleGc
  /\ Counter = 0 /\ phones = <<>> /\ total_students = 0 /\ students = <<>>
  /\ cls_op = "none" /\ printed = 0 /\ pre_Counter = 0 /\ pre_total_students = 0

NextCls ==
  \/ NewSmartphone
  \/ PrintCounter
  \/ AssignModelType
  \/ Features
  \/ NewStudent
  \/ Introduce
  \/ StudentCountOnClass
  \/ StudentCountOnInstance

SpecCls == InitCls /\ [][NextCls]_vars

(* ---------------- what the claims speak of ---------------- *)

\* str(k) of a natural number
DigitChar(d) ==
  CASE d = 0 -> "0" [] d = 1 -> "1" [] d = 2 -> "2" [] d = 3 -> "3"
    [] d = 4 -> "4" [] d = 5 -> "5" [] d = 6 -> "6" [] d = 7 -> "7"
    [] d = 8 -> "8" [] d = 9 -> "9"

RECURSIVE NatToStr(_)
NatToStr(k) ==
  IF k < 10 THEN <<DigitChar(k)>>
  ELSE Append(NatToStr(k \div 10), DigitChar(k % 10))

Repeat(c, k) == [i \in 1..k |-> c]

\* the naturals whose decimal form is one of the strings of the model
DecimalNats == {k \in 0..(10 ^ MaxStrLen - 1) : NatToStr(k) \in Strings}

\* Every string of the model that holds an integer, with the integer it
\* holds: blanks, an optional sign, leading zeros, the decimal form, blanks.
IntLiterals ==
  {lit \in
     {<<Repeat(" ", l) \o sg[1] \o Repeat("0", z) \o NatToStr(k) \o Repeat(" ", r),
        sg[2] * k>> :
        l \in 0..MaxStrLen, r \in 0..MaxStrLen, z \in 0..MaxStrLen,
        sg \in {<< <<>>, 1 >>, << <<"-">>, -1 >>, << <<"+">>, 1 >>},
        k \in DecimalNats} :
     Len(lit[1]) <= MaxStrLen}

IntStrings == {lit[1] : lit \in IntLiterals}

\* the integer a string of IntStrings holds
HeldInt == [chars \in IntStrings |-> CHOOSE v \in -(10 ^ MaxStrLen)..(10 ^ MaxStrLen) : <<chars, v>> \in IntLiterals]

AgeSetterCalls == {"Employee2.set_age", "Employee3.age", "Employee4.age"}
NameSetterCalls == {"Employee2.set_name", "Employee3.name", "Employee4.name"}

Rejected(e) == exc = e /\ _name = pre_name /\ _age = pre_age

\* C3: an age setter of Employee2/3/4 stores the integer a string holds when
\* that integer is not negative, fails with ValueError on a negative number
\* and on a string holding a negative integer, and fails with TypeError on a
\* value that is no number and that int() cannot convert.
C3_AgeSetterClassifies ==
  op \in AgeSetterCalls =>
    /\ (arg.t = "str" /\ arg.s \in IntStrings /\ HeldInt[arg.s] >= 0)
         => (exc = "none" /\ _age = IntV(HeldInt[arg.s]) /\ _name = pre_name)
    /\ (arg.t = "str" /\ arg.s \in IntStrings /\ HeldInt[arg.s] < 0)
         => Rejected("ValueError")
    /\ (arg.t \in {"int", "float"} /\ arg.n < 0) => Rejected("ValueError")
    /\ (arg.t = "none" \/ (arg.t = "str" /\ arg.s \notin IntStrings))
         => Rejected("TypeError")

\* the demo's Employee4 assignment of "30" was made and 30 is stored
C3_Witness ==
  /\ op = "Employee4.age" /\ arg = StrV(<<"3", "0">>)
  /\ exc = "none" /\ _age = IntV(30)

\* a whole non-negative number: an int, a bool, or a float without fraction
IsNonNegativeInteger(v) ==
  /\ v.t \in {"int", "bool", "float"}
  /\ v.n >= 0
  /\ v.t = "float" => v.n % 2 = 0

\* C4: age validation either fails or leaves a non-negative integer as the
\* age (returned by Employee1.set_age, stored by the property setters).
C4_AgeIsNonNegativeInteger ==
  /\ op = "Employee1.set_age" => (exc # "none" \/ IsNonNegativeInteger(ret))
  /\ op \in AgeSetterCalls => (exc # "none" \/ IsNonNegativeInteger(_age))

\* reading obj.name / obj.get_name()
get_name == _name

\* C5: a name setter rejects every value that is not a str with TypeError
\* and stores every str unchanged, so that name reads back as assigned.
C5_NameSetter ==
  op \in NameSetterCalls =>
    /\ arg.t # "str" => Rejected("TypeError")
    /\ arg.t = "str" => (exc = "none" /\ get_name = arg /\ _age = pre_age)

\* a non-empty string went through the Employee4 name setter and is stored
C5_Witness ==
  /\ op = "Employee4.name" /\ arg = StrV(<<"a", "-", "5">>)
  /\ exc = "none" /\ get_name = arg

\* C9: Employee1.set_age fails with "Age should be positive" on a negative
\* age, with "Invalid age value" on a non-numeric one, and returns int(age)
\* otherwise.
C9_Employee1Failures ==
  op = "Employee1.set_age" =>
    LET negative == \/ (arg.t \in {"int", "float"} /\ arg.n < 0)
                    \/ (arg.t = "str" /\ arg.s \in IntStrings /\ HeldInt[arg.s] < 0)
        nonNumeric == \/ arg.t = "none"
                      \/ (arg.t = "str" /\ arg.s \notin IntStrings)
    IN /\ negative => (exc = "ValueError" /\ msg = "Age should be positive")
       /\ nonNumeric => (exc = "ValueError" /\ msg = "Invalid age value")
       /\ (~negative /\ ~nonNumeric /\ arg.t # "nan")
            => (exc = "none" /\ ret = PyInt(arg).val)

\* a number that is not below zero
IsNonNegativeNumber(v) == v.t \in {"int", "bool", "float"} /\ v.n >= 0

\* C10: an Employee4 instance always holds a str name and a non-negative
\* number as age; a rejected assignment leaves both as they were; a rejected
\* construction binds no instance.
C10_Employee4Invariant ==
  /\ bound => (_name.t = "str" /\ IsNonNegativeNumber(_age))
  /\ (op \in {"Employee4.name", "Employee4.age"} /\ exc # "none")
       => (_name = pre_name /\ _age = pre_age)
  /\ (op = "Employee4.__init__" /\ exc # "none")
       => (bound = pre_bound /\ _name = pre_name /\ _age = pre_age)

\* the same with NaN allowed as an age
C10_ExceptNaN ==
  /\ bound => (_name.t = "str" /\ (IsNonNegativeNumber(_age) \/ _age = NaN))
  /\ (op \in {"Employee4.name", "Employee4.age"} /\ exc # "none")
       => (_name = pre_name /\ _age = pre_age)
  /\ (op = "Employee4.__init__" /\ exc # "none")
       => (bound = pre_bound /\ _name = pre_name /\ _age = pre_age)

\* what the user typed holds an integer / holds zero
TypedInt == age \in IntStrings
TypedZero == TypedInt /\ HeldInt[age] = 0

Reported(line) == \E i \in 1..Len(console) : console[i] = line

\* C6 as claimed: in all three scripts every exception of the function is
\* caught and reported inside it and the function returns normally.
C6_NothingPropagates ==
  /\ pc # "escaped"
  /\ pc = "done" =>
       /\ ~TypedInt => Reported("Caught an error: Invalid input.")
       /\ TypedZero => Reported("Caught an error: Cannot divide by zero.")

\* C6 amended: try_except.py and try_except_finally.py catch and report both
\* kinds and return; try.py does so for the ValueError only, and its
\* ZeroDivisionError on a typed zero leaves the function with nothing
\* reported.
C6_CaughtWhereHandled ==
  /\ pc = "escaped" =>
       (script = "try.py" /\ TypedZero /\ pending = "ZeroDivisionError"
          /\ console = <<>> /\ returned = "")
  /\ pc = "done" =>
       /\ ~TypedInt =>
            (Reported("Caught an error: Invalid input.") /\ returned = "None")
       /\ TypedZero =>
            (script # "try.py" /\ Reported("Caught an error: Cannot divide by zero.")
               /\ returned = "None")
       /\ (TypedInt /\ ~TypedZero) =>
            (Reported("Result of 100 / age") /\ returned = "Success")

\* try.py was given "0" and the ZeroDivisionError left the function
C6_Witness == script = "try.py" /\ age = <<"0">> /\ pc = "escaped"

\* C7: in try_except_finally.py the finally clause runs exactly once on every
\* path, after the result or the error was printed and before the function
\* returns, and the return value is the one of the path taken.
C7_FinallyOnce ==
  script = "try_except_finally.py" =>
    /\ finally_runs <= 1
    /\ (pc \in {"returning", "except", "handled", "unhandled"}) => finally_runs = 0
    /\ pc = "finalized" => (finally_runs = 1 /\ returned = "")
    /\ pc \in {"done", "escaped"} =>
         /\ finally_runs = 1
         /\ Len(console) >= 2
         /\ console[Len(console)] = "Finally block executed"
         /\ console[1] \in {"Result of 100 / age",
                            "Caught an error: Cannot divide by zero.",
                            "Caught an error: Invalid input."}
         /\ Cardinality({i \in 1..Len(console) : console[i] = "Finally block executed"}) = 1
    /\ pc = "done" =>
         returned = (IF TypedInt /\ ~TypedZero THEN "Success" ELSE "None")

\* the early return of "Success" went through the finally clause
C7_Witness ==
  /\ script = "try_except_finally.py" /\ pc = "done"
  /\ returned = "Success" /\ finally_runs = 1

NoRepeats(data) == \A i, j \in 1..Len(data) : data[i] = data[j] => i = j

\* C1: clean_data returns a list without repeated elements whose elements
\* are exactly those of the input.
C1_CleanData ==
  stage \in {"cleaned", "processed"} =>
    (NoRepeats(cleaned) /\ Elements(cleaned) = Elements(raw_data))

\* a list with a repeated element was cleaned
C1_Witness ==
  /\ stage = "cleaned" /\ raw_data = <<2, 1, 2>>
  /\ cleaned = <<1, 2>>

\* C2: process_data returns a list as long as its input whose i-th element
\* is twice the input's i-th element, and leaves its input as it was.
C2_ProcessData ==
  [][(stage \in {"start", "cleaned"} /\ stage' \in {"processed", "processed_raw"})
       => LET input == IF stage = "cleaned" THEN cleaned ELSE raw_data
          IN /\ Len(processed') = Len(input)
             /\ \A i \in 1..Len(input) : processed'[i] = 2 * input[i]
             /\ raw_data' = raw_data /\ cleaned' = cleaned]_vars

\* a list with a repeated element was processed
C2_Witness ==
  /\ stage = "processed_raw" /\ raw_data = <<1, 1, -2>>
  /\ processed = <<2, 2, -4>>

\* C8: no file-handling script ends, normally or with an exception, while a
\* handle it opened is still open.
C8_HandlesReleased == Terminated => handles = {}

\* C11: started with Section_dir absent or a directory and Section_new_dir
\* absent, rename_dir.py raises nothing and ends with Section_new_dir a
\* directory and Section_dir gone.
C11_RenameDirWorks ==
  (start_dir.kind \in {"absent", "dir"} /\ start_new_dir.kind = "absent") =>
    /\ dir_exc = "none"
    /\ dir_pc = 16 => (isdir(Section_new_dir) /\ ~exists(Section_dir))

\* the same for a start without Section_dir only
C11_WhenMissing ==
  (start_dir.kind = "absent" /\ start_new_dir.kind = "absent") =>
    /\ dir_exc = "none"
    /\ dir_pc = 16 => (isdir(Section_new_dir) /\ ~exists(Section_dir))

\* C12: while parent_instance refers to the parent its count is 2 and the
\* child's 1; after parent_instance = None both are still tracked with count
\* 1 each and reference counting has freed nothing; after gc.collect() both
\* are gone, and at no time is one of the two alive without the other.
C12_CycleNeedsCollector ==
  /\ ~freed_by_refcount
  /\ parent_id # 0 =>
       /\ (heap[parent_id].st = "live") <=> (heap[child_id].st = "live")
       /\ gc_op = "create" =>
            /\ parent_instance = parent_id
            /\ heap[parent_id].st = "live" /\ heap[child_id].st = "live"
            /\ heap[parent_id].refcount = 2 /\ heap[child_id].refcount = 1
            /\ seen_refs \in {<<>>, <<2, 1>>}
            /\ seen_exists \in {<<>>, <<TRUE, TRUE>>}
       /\ gc_op = "drop" =>
            /\ heap[parent_id].st = "live" /\ heap[child_id].st = "live"
            /\ heap[parent_id].cls = "ParentObject" /\ heap[child_id].cls = "ChildObject"
            /\ heap[parent_id].refcount = 1 /\ heap[child_id].refcount = 1
            /\ seen_refs \in {<<>>, <<1, 1>>}
            /\ seen_exists \in {<<>>, <<TRUE, TRUE>>}
       /\ (gc_op = "collect" /\ parent_instance = 0) =>
            /\ heap[parent_id].st = "free" /\ heap[child_id].st = "free"
            /\ seen_exists \in {<<>>, <<FALSE, FALSE>>}

\* the script's run: created, dropped, collected, and the last check printed
\* False for both
C12_Witness ==
  /\ gc_op = "collect" /\ parent_instance = 0 /\ parent_id # 0
  /\ collected = 2 /\ seen_exists = <<FALSE, FALSE>>

\* C13: each class counter equals the number of instances constructed so far
\* (0 before the first); a construction raises its class's counter by
\* exactly 1 and leaves the other alone; no other statement changes either;
\* and student_count prints the counter whether called on the class or on an
\* instance.
C13_CountersCountConstructions ==
  /\ Counter = Len(phones)
  /\ total_students = Len(students)
  /\ cls_op = "Smartphone" =>
       Counter = pre_Counter + 1 /\ total_students = pre_total_students
  /\ cls_op = "Student" =>
       total_students = pre_total_students + 1 /\ Counter = pre_Counter
  /\ cls_op \notin {"Smartphone", "Student"} =>
       Counter = pre_Counter /\ total_students = pre_total_students
  /\ cls_op = "print_Counter" => printed = Len(phones)
  /\ cls_op \in {"Student.student_count", "instance.student_count"} =>
       printed = Len(students)

\* the two scripts' ends: one phone, renamed, and s1.student_count() printing 2
C13_Witness ==
  /\ cls_op = "instance.student_count" /\ printed = 2
  /\ Len(students) = 2 /\ students[1].name = "Alice" /\ students[2].name = "Bob"
  /\ Len(phones) = 1 /\ phones[1].model = "Honor" /\ Counter = 1

====
